---- MODULE Spec2Model ----
(***************************************************************************)
(* Model of the next-ecommerce storefront: the Order model and its         *)
(* pre-save hooks, the Review model and its rating aggregation hooks, and  *)
(* the JWT session middleware, the save hooks of the Product model and the *)
(* server actions of the accounts.                                         *)
(*                                                                         *)
(* Money is counted in whole units, ratings are integers and averages are  *)
(* kept in tenths; strings that the code formats or tests by prefix are    *)
(* sequences of one-character strings.                                     *)
(***************************************************************************)
EXTENDS Integers, Sequences, FiniteSets, TLC

VARIABLES orders, req, now, reviews, products, rv, jar, mw,
          gen, catalog, users, act, session

vars == <<orders, req, now, reviews, products, rv, jar, mw,
          gen, catalog, users, act, session>>

\* session[c] is the last session event of the browser of client c: "in" after
\* setAuthCookie (called by loginUser and registerUser only), "out" after
\* removeAuthCookie (called by logoutUser only), "none" before either.

(***************************************************************************)
(* Bounds                                                                  *)
(***************************************************************************)
NumClients == 2
MaxOrders == 2
MaxItems == 2
MaxMoney == 1
MaxStamp == 2
MaxTime == 8
MaxReviews == 2
MaxRated == 3
NumProducts == 2
MaxCount == 60
MaxImages == 3
MaxUsers == 3

Clients == 1..NumClients

(***************************************************************************)
(* Strings as character sequences                                          *)
(***************************************************************************)
Digit(d) == CASE d = 0 -> "0" [] d = 1 -> "1" [] d = 2 -> "2" [] d = 3 -> "3"
              [] d = 4 -> "4" [] d = 5 -> "5" [] d = 6 -> "6" [] d = 7 -> "7"
              [] d = 8 -> "8" [] d = 9 -> "9"

RECURSIVE NumToString(_)
\* String(n) for a non-negative integer n
NumToString(n) == IF n < 10 THEN <<Digit(n)>>
               ELSE NumToString(n \div 10) \o <<Digit(n % 10)>>

RECURSIVE PadStart(_, _, _)
\* String.prototype.padStart with a one-character fill string
PadStart(s, targetLength, fill) ==
    IF Len(s) >= targetLength THEN s
    ELSE PadStart(<<fill>> \o s, targetLength, fill)

UpperChar(ch) == CASE ch = "o" -> "O" [] ch = "r" -> "R" [] ch = "d" -> "D"
                   [] ch = "x" -> "X" [] OTHER -> ch

\* the schema setter "uppercase: true"
ToUpperCase(s) == [i \in 1..Len(s) |-> UpperChar(s[i])]

LowerChar(ch) == CASE ch = "A" -> "a" [] ch = "B" -> "b" [] OTHER -> ch

\* the schema setter "lowercase: true"
ToLowerCase(s) == [i \in 1..Len(s) |-> LowerChar(s[i])]

StartsWith(s, prefix) ==
    /\ Len(s) >= Len(prefix)
    /\ SubSeq(s, 1, Len(prefix)) = prefix

(***************************************************************************)
(* Order documents                                                         *)
(***************************************************************************)
Statuses == {"pending", "processing", "shipped", "delivered", "cancelled"}

\* a field that was never given a value (undefined)
Undefined == 0 - 1000

\* new Date().getFullYear()
CurrentYear == 2026

PadLength == 5

RECURSIVE SumSubtotals(_)
\* items.reduce((sum, item) => sum + item.subtotal, 0)
SumSubtotals(items) ==
    IF Len(items) = 0 THEN 0
    ELSE SumSubtotals(SubSeq(items, 1, Len(items) - 1)) + items[Len(items)].subtotal

OrderItemValid(item) ==
    /\ item.price >= 0
    /\ item.quantity >= 1
    /\ item.subtotal >= 0

\* the validation without the validator of items
ValidateOrder_NoItemsValidator(doc) ==
    /\ Len(doc.orderNumber) > 0
    /\ \A i \in 1..Len(doc.items) : OrderItemValid(doc.items[i])
    /\ doc.subtotal # Undefined /\ doc.subtotal >= 0
    /\ doc.shippingCost >= 0
    /\ doc.tax >= 0
    /\ doc.discount >= 0
    /\ doc.total # Undefined /\ doc.total >= 0
    /\ doc.status \in Statuses

\* the built-in validation of OrderSchema: required paths, min validators,
\* the enum of status and the items validator
ValidateOrder(doc) ==
    /\ Len(doc.orderNumber) > 0
    /\ Len(doc.items) > 0
    /\ \A i \in 1..Len(doc.items) : OrderItemValid(doc.items[i])
    /\ doc.subtotal # Undefined /\ doc.subtotal >= 0
    /\ doc.shippingCost >= 0
    /\ doc.tax >= 0
    /\ doc.discount >= 0
    /\ doc.total # Undefined /\ doc.total >= 0
    /\ doc.status \in Statuses

\* a hook that numbers every document it sees
NeedsOrderNumber_Always(doc) == TRUE

\* if (!this.orderNumber)
NeedsOrderNumber(doc) == Len(doc.orderNumber) = 0

\* `ORD-${year}-${String(count + 1).padStart(5, '0')}`
FormatOrderNumber(year, count) ==
    <<"O", "R", "D", "-">> \o NumToString(year) \o <<"-">>
        \o PadStart(NumToString(count + 1), PadLength, "0")

\* a totals hook that prices the items from the live catalog
CalculateTotals_LiveCatalog(doc) ==
    LET live == [i \in 1..Len(doc.items) |->
                   LET item == doc.items[i]
                       price == IF catalog[item.product].exists
                                THEN catalog[item.product].price ELSE 0
                   IN  [item EXCEPT !.price = price,
                                    !.subtotal = price * item.quantity]]
        sub == SumSubtotals(live)
    IN  [doc EXCEPT !.items = live, !.subtotal = sub,
                    !.total = sub + doc.shippingCost + doc.tax - doc.discount]

\* the totals hook with the discount forgotten
CalculateTotals_NoDiscount(doc) ==
    LET sub == SumSubtotals(doc.items)
    IN  [doc EXCEPT !.subtotal = sub,
                    !.total = sub + doc.shippingCost + doc.tax]

\* second pre('save') hook: calculate totals
CalculateTotals(doc) ==
    LET sub == SumSubtotals(doc.items)
    IN  [doc EXCEPT !.subtotal = sub,
                    !.total = sub + doc.shippingCost + doc.tax - doc.discount]

\* new Order(input): setters and schema defaults
NewOrder(input) ==
    [orderNumber |-> ToUpperCase(input.orderNumber),
     items |-> input.items,
     subtotal |-> input.subtotal,
     shippingCost |-> input.shippingCost,
     tax |-> input.tax,
     discount |-> input.discount,
     total |-> input.total,
     status |-> "pending",
     paidAt |-> 0, shippedAt |-> 0, deliveredAt |-> 0, cancelledAt |-> 0]

OrderFields == {"orderNumber", "items", "subtotal", "shippingCost", "tax",
                "discount", "total", "status",
                "paidAt", "shippedAt", "deliveredAt", "cancelledAt"}

\* save() of a loaded document writes the paths that differ from what was loaded
ApplyDelta(stored, base, doc) ==
    [f \in OrderFields |-> IF doc[f] # base[f] THEN doc[f] ELSE stored[f]]

\* the unique index on orderNumber, for the document with the given _id
OrderNumberTaken(number, id) ==
    \E j \in 1..Len(orders) : j # id /\ orders[j].orderNumber = number

NoDoc == NewOrder([orderNumber |-> <<>>, items |-> <<>>, subtotal |-> 0,
                   shippingCost |-> 0, tax |-> 0, discount |-> 0, total |-> 0])

IdleReq == [pc |-> "idle", id |-> 0, base |-> NoDoc, input |-> NoDoc, doc |-> NoDoc,
            validate |-> TRUE, actor |-> "admin", counted |-> FALSE, count |-> 0,
            result |-> "", wrote |-> 0]

(***************************************************************************)
(* Review documents and the cached rating of a product                     *)
(***************************************************************************)
ReviewStatuses == {"pending", "approved", "rejected"}

MinRating == 1
MaxRating == 5

Products == 1..NumProducts

\* the _ids of the Review collection
ReviewIds == DOMAIN reviews

NoReview == [exists |-> FALSE, product |-> 0, user |-> 0, order |-> 0,
             rating |-> 0, status |-> "pending"]

ValidateReview(doc) ==
    /\ doc.rating >= MinRating
    /\ doc.rating <= MaxRating
    /\ doc.status \in ReviewStatuses

\* a unique index on { user, product } only
ReviewKeyTaken_UserProduct(doc, id) ==
    \E j \in ReviewIds :
        /\ j # id /\ reviews[j].exists
        /\ reviews[j].user = doc.user
        /\ reviews[j].product = doc.product

\* the unique index { user, product, order }, for the document with the given _id
ReviewKeyTaken(doc, id) ==
    \E j \in ReviewIds :
        /\ j # id /\ reviews[j].exists
        /\ reviews[j].user = doc.user
        /\ reviews[j].product = doc.product
        /\ reviews[j].order = doc.order

\* the _id of the next inserted review (0: the bound on inserts is reached)
FreshReviewId ==
    IF rv.inserted + 1 \in ReviewIds THEN rv.inserted + 1 ELSE 0

RECURSIVE SumRatings(_)
SumRatings(ids) ==
    IF ids = {} THEN 0
    ELSE LET i == CHOOSE j \in ids : TRUE
         IN  reviews[i].rating + SumRatings(ids \ {i})

\* the $match stage without the filter on status
MatchApproved_AnyStatus(productId) ==
    {i \in ReviewIds : /\ reviews[i].exists
                       /\ reviews[i].product = productId}

\* the $match stage of the aggregation
MatchApproved(productId) ==
    {i \in ReviewIds : /\ reviews[i].exists
                       /\ reviews[i].product = productId
                       /\ reviews[i].status = "approved"}

\* Review.aggregate([$match, $group]): no group when nothing matches;
\* the average is kept as the pair of the sum and the count
AggregateStats(productId) ==
    LET matched == MatchApproved(productId)
    IN  IF matched = {} THEN <<>>
        ELSE <<[sum |-> SumRatings(matched), count |-> Cardinality(matched)]>>

\* Math.round(averageRating * 10) / 10, in tenths
RoundToTenths(sum, count) == (20 * sum + count) \div (2 * count)

\* the update that updateProductRating sends for the stats it has read
RatingUpdate(stats) ==
    IF Len(stats) > 0
    THEN [averageRating |-> RoundToTenths(stats[1].sum, stats[1].count),
          reviewCount |-> stats[1].count]
    ELSE [averageRating |-> 0, reviewCount |-> 0]

IdleRv == [pc |-> "idle", op |-> "", product |-> 0, input |-> NoReview,
           before |-> "none", after |-> "none", stats |-> <<>>, result |-> "",
           recomputed |-> FALSE]

(***************************************************************************)
(* Session tokens and the middleware                                       *)
(***************************************************************************)
\* the key the server signs with and verifies against
JWT_SECRET == "server"

\* setExpirationTime('7d'), in days
TOKEN_DAYS == 7

\* SignJWT(payload).setProtectedHeader.setIssuedAt.setExpirationTime.sign
CreateToken(payload, t) ==
    [payload |-> payload, iat |-> t, exp |-> t + TOKEN_DAYS,
     key |-> JWT_SECRET, wellFormed |-> TRUE]

\* a verification that does not look at the expiry
VerifyToken_IgnoringExpiry(token, t) ==
    IF token.wellFormed /\ token.key = JWT_SECRET
    THEN <<token.payload>>
    ELSE <<>>

\* jwtVerify inside try/catch: the payload, or null (the empty sequence)
\* when the token is malformed, signed with another key or expired
VerifyToken(token, t) ==
    IF token.wellFormed /\ token.key = JWT_SECRET /\ t < token.exp
    THEN <<token.payload>>
    ELSE <<>>

\* the payload read from the cookie without verifying the token
GetUserFromRequest_Decoded(cookie, t) ==
    IF Len(cookie) = 0 THEN <<>> ELSE <<cookie[1].payload>>

\* request.cookies.get(TOKEN_NAME)?.value, then verifyToken
GetUserFromRequest(cookie, t) ==
    IF Len(cookie) = 0 THEN <<>> ELSE VerifyToken(cookie[1], t)

PathRoot == <<"/">>
PathAuth == <<"/", "a", "u", "t", "h">>
PathAdmin == <<"/", "a", "d", "m", "i", "n">>
PathAccount == <<"/", "a", "c", "c", "o", "u", "n", "t">>
PathOrders == <<"/", "o", "r", "d", "e", "r", "s">>
PathCheckout == <<"/", "c", "h", "e", "c", "k", "o", "u", "t">>
PathLogin == <<"/", "a", "u", "t", "h", "/", "l", "o", "g", "i", "n">>

\* NextResponse.redirect(new URL('/', request.url))
RedirectHome == [kind |-> "redirect", to |-> PathRoot, redirect |-> <<>>]

\* redirectToLogin(request)
RedirectToLogin(pathname) ==
    [kind |-> "redirect", to |-> PathLogin, redirect |-> pathname]

\* NextResponse.next()
PassThrough == [kind |-> "next", to |-> <<>>, redirect |-> <<>>]

IsProtectedRoute(pathname) ==
    \/ StartsWith(pathname, PathAdmin)
    \/ StartsWith(pathname, PathAccount)
    \/ StartsWith(pathname, PathOrders)
    \/ StartsWith(pathname, PathCheckout)

\* the middleware without the check of the admin role
MiddlewareResponse_NoRoleCheck(pathname, user) ==
    IF StartsWith(pathname, PathAuth) /\ Len(user) > 0
    THEN RedirectHome
    ELSE IF IsProtectedRoute(pathname) /\ Len(user) = 0
    THEN RedirectToLogin(pathname)
    ELSE PassThrough

\* the body of middleware(request), user being the verified payload or null
MiddlewareResponse(pathname, user) ==
    IF StartsWith(pathname, PathAuth) /\ Len(user) > 0
    THEN RedirectHome
    ELSE IF IsProtectedRoute(pathname) /\ Len(user) = 0
    THEN RedirectToLogin(pathname)
    ELSE IF StartsWith(pathname, PathAdmin)
            /\ (Len(user) = 0 \/ user[1].role # "admin")
    THEN RedirectHome
    ELSE PassThrough

\* a matcher entry '/base/:path*': the base itself and everything below it
MatchesEntry(pathname, base) ==
    pathname = base \/ StartsWith(pathname, base \o <<"/">>)

\* config.matcher
MatcherMatches(pathname) ==
    \E base \in {PathAdmin, PathAccount, PathOrders, PathCheckout, PathAuth} :
        MatchesEntry(pathname, base)

NoCall == [pathname |-> <<>>, cookie |-> <<>>, at |-> 0, user |-> <<>>,
           response |-> [kind |-> "none", to |-> <<>>, redirect |-> <<>>]]

\* cookieStore.get(TOKEN_NAME)?.value, then verifyToken, inside try/catch
GetCurrentUser(cookieStore, t) ==
    IF Len(cookieStore) = 0 THEN <<>> ELSE VerifyToken(cookieStore[1], t)

(***************************************************************************)
(* The order-number hook on its own                                        *)
(***************************************************************************)
\* a document that the hook has not numbered, with the count it will await
NotNumbered == [count |-> 0, orderNumber |-> <<>>, hooked |-> FALSE]

\* first pre('save') hook, given what countDocuments() resolves to
OrderNumberHook(doc, count) ==
    IF NeedsOrderNumber(doc)
    THEN [doc EXCEPT !.orderNumber = FormatOrderNumber(CurrentYear, count)]
    ELSE doc

(***************************************************************************)
(* Product documents                                                       *)
(***************************************************************************)
\* a slot of the Product collection that holds no document
NoProduct == [exists |-> FALSE, name |-> <<>>, slug |-> <<>>, sku |-> <<>>,
              price |-> 0, images |-> <<>>, given |-> <<>>]

RECURSIVE Trim(_)
\* the schema setter "trim: true"
Trim(s) ==
    IF Len(s) > 0 /\ Head(s) = " " THEN Trim(Tail(s))
    ELSE IF Len(s) > 0 /\ s[Len(s)] = " " THEN Trim(SubSeq(s, 1, Len(s) - 1))
    ELSE s

\* the characters that /[^a-z0-9]+/ does not match
IsSlugChar(ch) ==
    ch \in {"a", "b", "d", "x"} \cup {Digit(d) : d \in 0..9}

RECURSIVE Dashed(_)
\* replace(/[^a-z0-9]+/g, '-'): every run of other characters becomes one dash
Dashed(s) ==
    IF Len(s) = 0 THEN s
    ELSE IF IsSlugChar(Head(s)) THEN <<Head(s)>> \o Dashed(Tail(s))
    ELSE IF Len(s) > 1 /\ ~IsSlugChar(s[2]) THEN Dashed(Tail(s))
    ELSE <<"-">> \o Dashed(Tail(s))

\* replace(/^-|-$/g, ''): a leading and a trailing dash are dropped
StripDashes(s) ==
    LET t == IF Len(s) > 0 /\ Head(s) = "-" THEN Tail(s) ELSE s
    IN  IF Len(t) > 0 /\ t[Len(t)] = "-" THEN SubSeq(t, 1, Len(t) - 1) ELSE t

\* first pre('save') hook: the slug generated from the name when none is set
GenerateSlug(doc) ==
    IF Len(doc.slug) = 0 /\ Len(doc.name) > 0
    THEN [doc EXCEPT !.slug = StripDashes(Dashed(ToLowerCase(doc.name)))]
    ELSE doc

\* new Product(input): the setters of the schema; given keeps the images as
\* the caller passed them
NewProduct(input) ==
    [exists |-> TRUE, name |-> Trim(input.name),
     slug |-> ToLowerCase(Trim(input.slug)),
     sku |-> ToUpperCase(Trim(input.sku)), price |-> input.price,
     images |-> input.images, given |-> input.images]

\* the unique indexes on slug and sku, for the document in slot p
ProductKeyTaken(doc, p) ==
    \E q \in DOMAIN catalog :
        /\ q # p /\ catalog[q].exists
        /\ (catalog[q].sku = doc.sku \/ catalog[q].slug = doc.slug)

\* the built-in validation of ProductSchema: required paths, min of price,
\* the images validator
ValidateProduct(doc) ==
    /\ Len(doc.name) > 0
    /\ Len(doc.slug) > 0
    /\ Len(doc.sku) > 0
    /\ doc.price >= 0
    /\ Len(doc.images) > 0

\* the Product model without the hook
EnsurePrimaryImage_Skipped(doc) == doc

\* pre('save') hook: ensure at least one primary image
EnsurePrimaryImage(doc) ==
    IF Len(doc.images) > 0
    THEN LET hasPrimary == \E i \in 1..Len(doc.images) : doc.images[i].isPrimary
         IN  IF ~hasPrimary
             THEN [doc EXCEPT !.images[1].isPrimary = TRUE]
             ELSE doc
    ELSE doc

(***************************************************************************)
(* User documents and the server actions of the accounts                   *)
(***************************************************************************)
\* z.string().email(): a local part, an @ and a domain
IsEmail(s) == \E i \in 2..(Len(s) - 1) : s[i] = "@"

\* z.string().min(8) of registerSchema and minlength: 8 of UserSchema
MinPasswordLength == 8

\* registerSchema.safeParse(data).success
RegisterParse(form) ==
    /\ Len(form.firstName) >= 1
    /\ IsEmail(form.email)
    /\ Len(form.password) >= MinPasswordLength

\* loginSchema.safeParse(data).success
LoginParse(form) ==
    /\ IsEmail(form.email)
    /\ Len(form.password) >= 1

\* bcrypt.hash(password, salt)
Hash(password) == <<"$">> \o password

\* user.comparePassword(candidatePassword)
ComparePassword(user, candidatePassword) ==
    IF Len(user.password) = 0 THEN FALSE
    ELSE user.password = Hash(candidatePassword)

\* the document User.create(validated.data) inserts: the keys of
\* registerSchema, the setters and defaults of UserSchema, the hashed password
NewUser(data) ==
    [email |-> ToLowerCase(data.email), password |-> Hash(data.password),
     role |-> "customer", firstName |-> data.firstName]

\* User.findOne({ email }): the _id of the user, 0 when there is none
FindOneByEmail(email) ==
    IF \E i \in 1..Len(users) : users[i].email = ToLowerCase(email)
    THEN CHOOSE i \in 1..Len(users) : users[i].email = ToLowerCase(email)
    ELSE 0

\* a User collection without the unique index
EmailTaken_NoIndex(email) == FALSE

\* the unique index on email: a stored user has the email as the setters
\* store it
EmailTaken(email) ==
    \E i \in 1..Len(users) : users[i].email = ToLowerCase(email)

\* User.findById(id): the _id when a user has it, 0 when none has
FindById(id) == IF id \in 1..Len(users) THEN id ELSE 0

\* a payload that takes the email from the form
AuthPayload_FromForm(id, form) ==
    [userId |-> id, email |-> form.email, role |-> users[id].role]

\* { userId: user._id.toString(), email: user.email, role: user.role }
AuthPayload(id, form) ==
    [userId |-> id, email |-> users[id].email, role |-> users[id].role]

NoResult == [kind |-> "none", success |-> FALSE, message |-> "", errors |-> FALSE]

\* return { success: true, message }
Succeeded(message) ==
    [kind |-> "returned", success |-> TRUE, message |-> message, errors |-> FALSE]

\* return { success: false, message }
Failed(message) ==
    [kind |-> "returned", success |-> FALSE, message |-> message, errors |-> FALSE]

\* return { success: false, errors: validated.error.flatten().fieldErrors }
FieldErrors ==
    [kind |-> "returned", success |-> FALSE, message |-> "", errors |-> TRUE]

\* an action without its try/catch: the error reaches the caller
Catch_Rethrow(op) ==
    [kind |-> "thrown", success |-> FALSE, message |-> "", errors |-> FALSE]

\* the catch block of each action
Catch(op) ==
    Failed(CASE op = "registerUser" -> "Registration failed. Please try again."
             [] op = "loginUser" -> "Login failed. Please try again."
             [] op = "getUserProfile" -> "Failed to fetch profile"
             [] op = "updateUserProfile" -> "Failed to update profile")

NoForm == [email |-> <<>>, password |-> <<>>, firstName |-> <<>>, role |-> ""]

\* cookie0: the cookie store as it was when the action was called; caught:
\* the error the catch block was entered with
IdleAct == [pc |-> "idle", op |-> "", form |-> NoForm, user |-> 0,
            current |-> <<>>, cookie0 |-> <<>>, caught |-> "", result |-> NoResult]

\* the action of client c ends with the given result
Ended(c, result) == [act[c] EXCEPT !.pc = "done", !.result = result]

Init ==
    /\ orders = <<>>
    /\ req = [c \in Clients |-> IdleReq]
    /\ now = 1
    /\ reviews = [i \in 1..MaxReviews |-> NoReview]
    /\ products = [p \in Products |-> [averageRating |-> 0, reviewCount |-> 0]]
    /\ rv = [inserted |-> 0, call |-> [c \in Clients |-> IdleRv]]
    /\ jar = [c \in Clients |-> <<>>]
    /\ mw = NoCall
    /\ gen = NotNumbered
    /\ catalog = [p \in Products |-> NoProduct]
    /\ users = <<>>
    /\ act = [c \in Clients |-> IdleAct]
    /\ session = [c \in Clients |-> "none"]

\* the post hooks: whether updateProductRating is called after the write
\* post('save')
PostSave(doc) == doc.status = "approved"
\* post('findOneAndUpdate') and post('findOneAndDelete')
PostFindOneAnd(found) == found

Called(c, op, product, before, after, result, recompute) ==
    rv' = [rv EXCEPT !.call[c] =
              [IdleRv EXCEPT !.pc = IF recompute THEN "aggregate" ELSE "done",
                             !.op = op, !.product = product,
                             !.before = before, !.after = after,
                             !.result = result]]

\* new Review(doc).save()
ReviewCreate(c, doc) ==
    /\ rv.call[c].pc = "idle"
    /\ FreshReviewId # 0
    /\ LET call == [IdleRv EXCEPT !.op = "create", !.product = doc.product,
                                  !.input = doc]
       IN  IF ~ValidateReview(doc)
           THEN /\ rv' = [rv EXCEPT !.call[c] =
                            [call EXCEPT !.pc = "done", !.result = "ValidationError"]]
                /\ UNCHANGED reviews
           ELSE IF ReviewKeyTaken(doc, 0)
           THEN /\ rv' = [rv EXCEPT !.call[c] =
                            [call EXCEPT !.pc = "done", !.result = "DuplicateKey"]]
                /\ UNCHANGED reviews
           ELSE /\ reviews' = [reviews EXCEPT ![FreshReviewId] = doc]
                /\ rv' = [rv EXCEPT
                            !.inserted = FreshReviewId,
                            !.call[c] =
                              [call EXCEPT
                                 !.pc = IF PostSave(doc) THEN "aggregate" ELSE "done",
                                 !.after = doc.status, !.result = "ok"]]
    /\ UNCHANGED <<orders, req, now, products, jar, mw, gen, catalog, users, act, session>>

\* save() of a loaded review whose rating and status the caller has reassigned
ReviewSave(c, id, rating, status) ==
    /\ rv.call[c].pc = "idle"
    /\ reviews[id].exists
    /\ LET doc == [reviews[id] EXCEPT !.rating = rating, !.status = status]
       IN  IF ~ValidateReview(doc)
           THEN /\ Called(c, "save", doc.product, reviews[id].status,
                          reviews[id].status, "ValidationError", FALSE)
                /\ UNCHANGED reviews
           ELSE /\ reviews' = [reviews EXCEPT ![id] = doc]
                /\ Called(c, "save", doc.product, reviews[id].status, status,
                          "ok", PostSave(doc))
    /\ UNCHANGED <<orders, req, now, products, jar, mw, gen, catalog, users, act, session>>

\* Review.findOneAndUpdate({ _id: id }, { rating, status }): no validators run
FindOneAndUpdate(c, id, rating, status) ==
    /\ rv.call[c].pc = "idle"
    /\ IF reviews[id].exists
       THEN /\ reviews' = [reviews EXCEPT ![id].rating = rating, ![id].status = status]
            /\ Called(c, "findOneAndUpdate", reviews[id].product,
                      reviews[id].status, status, "ok", PostFindOneAnd(TRUE))
       ELSE /\ UNCHANGED reviews
            /\ Called(c, "findOneAndUpdate", 0, "none", "none", "null",
                      PostFindOneAnd(FALSE))
    /\ UNCHANGED <<orders, req, now, products, jar, mw, gen, catalog, users, act, session>>

\* Review.findOneAndDelete({ _id: id })
FindOneAndDelete(c, id) ==
    /\ rv.call[c].pc = "idle"
    /\ IF reviews[id].exists
       THEN /\ reviews' = [reviews EXCEPT ![id] = NoReview]
            /\ Called(c, "findOneAndDelete", reviews[id].product,
                      reviews[id].status, "none", "ok", PostFindOneAnd(TRUE))
       ELSE /\ UNCHANGED reviews
            /\ Called(c, "findOneAndDelete", 0, "none", "none", "null",
                      PostFindOneAnd(FALSE))
    /\ UNCHANGED <<orders, req, now, products, jar, mw, gen, catalog, users, act, session>>

\* updateProductRating, first await: the aggregation is read
Aggregate(c) ==
    /\ rv.call[c].pc = "aggregate"
    /\ rv' = [rv EXCEPT !.call[c].pc = "update",
                        !.call[c].stats = AggregateStats(rv.call[c].product)]
    /\ UNCHANGED <<orders, req, now, reviews, products, jar, mw, gen, catalog, users, act, session>>

\* updateProductRating, second await: Product.findByIdAndUpdate
UpdateProduct(c) ==
    /\ rv.call[c].pc = "update"
    /\ products' = [products EXCEPT ![rv.call[c].product] = RatingUpdate(rv.call[c].stats)]
    /\ rv' = [rv EXCEPT !.call[c].pc = "done", !.call[c].recomputed = TRUE]
    /\ UNCHANGED <<orders, req, now, reviews, jar, mw, gen, catalog, users, act, session>>

\* the write and its post hook have settled
ReviewReturn(c) ==
    /\ rv.call[c].pc = "done"
    /\ rv' = [rv EXCEPT !.call[c] = IdleRv]
    /\ UNCHANGED <<orders, req, now, reviews, products, jar, mw, gen, catalog, users, act, session>>

(***************************************************************************)
(* doc.save(): validation, then the pre('save') hooks in the order they    *)
(* were registered, then the write                                         *)
(***************************************************************************)
\* save() is called on doc (id = 0: a new document; otherwise the loaded
\* document orders[id] as the caller has modified it).  The built-in
\* validation runs first; the order-number hook then either awaits
\* countDocuments() or has nothing to do, in which case the totals hook
\* runs at once.
SaveBegin(c, id, doc, validate, actor) ==
    /\ req[c].pc = "idle"
    /\ id = 0 => Len(orders) < MaxOrders
    /\ LET r == [IdleReq EXCEPT !.id = id,
                                !.base = IF id = 0 THEN doc ELSE orders[id],
                                !.input = doc, !.doc = doc,
                                !.validate = validate, !.actor = actor]
       IN  IF validate /\ ~ValidateOrder(doc)
           THEN req' = [req EXCEPT ![c] = [r EXCEPT !.pc = "done",
                                                    !.result = "ValidationError"]]
           ELSE IF NeedsOrderNumber(doc)
           THEN req' = [req EXCEPT ![c] = [r EXCEPT !.pc = "count"]]
           ELSE req' = [req EXCEPT ![c] = [r EXCEPT !.pc = "write",
                                                    !.doc = CalculateTotals(doc)]]
    /\ UNCHANGED <<orders, now, reviews, products, rv, jar, mw, gen, catalog, users, act, session>>

\* countDocuments() resolves; the order number is formatted and the totals
\* hook runs
CountDocuments(c) ==
    /\ req[c].pc = "count"
    /\ LET count == Len(orders)
           numbered == [req[c].doc EXCEPT
                           !.orderNumber = FormatOrderNumber(CurrentYear, count)]
       IN  req' = [req EXCEPT ![c] = [@ EXCEPT !.pc = "write",
                                               !.counted = TRUE,
                                               !.count = count,
                                               !.doc = CalculateTotals(numbered)]]
    /\ UNCHANGED <<orders, now, reviews, products, rv, jar, mw, gen, catalog, users, act, session>>

\* the insert or update reaches the database, where the unique index on
\* orderNumber is enforced
Write(c) ==
    /\ req[c].pc = "write"
    /\ LET r == req[c]
       IN  IF OrderNumberTaken(r.doc.orderNumber, r.id)
           THEN /\ req' = [req EXCEPT ![c] = [@ EXCEPT !.pc = "done",
                                                       !.result = "DuplicateKey"]]
                /\ UNCHANGED orders
           ELSE IF r.id = 0
           THEN /\ orders' = Append(orders, r.doc)
                /\ req' = [req EXCEPT ![c] = [@ EXCEPT !.pc = "done",
                                                       !.result = "ok",
                                                       !.wrote = Len(orders) + 1]]
           ELSE /\ orders' = [orders EXCEPT ![r.id] = ApplyDelta(@, r.base, r.doc)]
                /\ req' = [req EXCEPT ![c] = [@ EXCEPT !.pc = "done",
                                                       !.result = "ok",
                                                       !.wrote = r.id]]
    /\ UNCHANGED <<now, reviews, products, rv, jar, mw, gen, catalog, users, act, session>>

\* the promise of save() settles and the client is free again
Return(c) ==
    /\ req[c].pc = "done"
    /\ req' = [req EXCEPT ![c] = IdleReq]
    /\ UNCHANGED <<orders, now, reviews, products, rv, jar, mw, gen, catalog, users, act, session>>

\* time passes, in days
Tick(limit) ==
    /\ now < limit
    /\ now' = now + 1
    /\ UNCHANGED <<orders, req, reviews, products, rv, jar, mw, gen, catalog, users, act, session>>

(***************************************************************************)
(* Writes of the Product collection                                        *)
(***************************************************************************)
\* new Product(input).save(), or save() of the loaded product of slot p with
\* its fields reassigned to those of input: validation, the slug hook, the
\* primary-image hook, then the write under the unique indexes
ProductSave(p, input, validate) ==
    /\ LET doc == NewProduct(input)
           hooked == EnsurePrimaryImage(GenerateSlug(doc))
       IN  IF validate /\ ~ValidateProduct(doc)
           THEN UNCHANGED catalog
           ELSE IF ProductKeyTaken(hooked, p)
           THEN UNCHANGED catalog
           ELSE catalog' = [catalog EXCEPT ![p] = hooked]
    /\ UNCHANGED <<orders, req, now, reviews, products, rv, jar, mw, gen, users, act, session>>

\* Product.findByIdAndDelete(p)
ProductRemove(p) ==
    /\ catalog[p].exists
    /\ catalog' = [catalog EXCEPT ![p] = NoProduct]
    /\ UNCHANGED <<orders, req, now, reviews, products, rv, jar, mw, gen, users, act, session>>

(***************************************************************************)
(* Cookies and requests                                                    *)
(***************************************************************************)
\* setAuthCookie(payload), on the cookie store of the browser of client c
SetAuthCookie(c, payload) ==
    /\ jar' = [jar EXCEPT ![c] = <<CreateToken(payload, now)>>]
    /\ session' = [session EXCEPT ![c] = "in"]
    /\ UNCHANGED <<orders, req, now, reviews, products, rv, mw, gen, catalog, users, act>>

\* removeAuthCookie() without the cookieStore.delete
RemoveAuthCookie_KeepsCookie(c) ==
    /\ session' = [session EXCEPT ![c] = "out"]
    /\ UNCHANGED <<orders, req, now, reviews, products, rv, jar, mw, gen, catalog, users, act>>

\* removeAuthCookie(), on the cookie store of the browser of client c
RemoveAuthCookie(c) ==
    /\ jar' = [jar EXCEPT ![c] = <<>>]
    /\ session' = [session EXCEPT ![c] = "out"]
    /\ UNCHANGED <<orders, req, now, reviews, products, rv, mw, gen, catalog, users, act>>

\* a request for a path of config.matcher reaches middleware(request)
Middleware(pathname, cookie) ==
    /\ MatcherMatches(pathname)
    /\ LET user == GetUserFromRequest(cookie, now)
       IN  mw' = [pathname |-> pathname, cookie |-> cookie, at |-> now, user |-> user,
                  response |-> MiddlewareResponse(pathname, user)]
    /\ UNCHANGED <<orders, req, now, reviews, products, rv, jar, gen, catalog, users, act, session>>

(***************************************************************************)
(* The server actions, one step for each awaited call                      *)
(***************************************************************************)
\* registerUser(formData) is called
RegisterUser(c, form) ==
    /\ act[c].pc = "idle"
    /\ Len(users) < MaxUsers
    /\ act' = [act EXCEPT ![c] = [IdleAct EXCEPT !.pc = "connect", !.op = "registerUser",
                                                 !.form = form, !.cookie0 = jar[c]]]
    /\ UNCHANGED <<orders, req, now, reviews, products, rv, jar, mw, gen, catalog, users, session>>

\* loginUser(formData) is called
LoginUser(c, form) ==
    /\ act[c].pc = "idle"
    /\ act' = [act EXCEPT ![c] = [IdleAct EXCEPT !.pc = "connect", !.op = "loginUser",
                                                 !.form = form, !.cookie0 = jar[c]]]
    /\ UNCHANGED <<orders, req, now, reviews, products, rv, jar, mw, gen, catalog, users, session>>

\* getUserProfile() or updateUserProfile(formData) is called: getCurrentUser
\* reads the cookie, and without a user the action returns
ProfileAction(c, op, form) ==
    /\ act[c].pc = "idle"
    /\ LET current == GetCurrentUser(jar[c], now)
           call == [IdleAct EXCEPT !.op = op, !.form = form, !.current = current,
                                   !.cookie0 = jar[c]]
       IN  act' = [act EXCEPT ![c] =
                     IF Len(current) = 0
                     THEN [call EXCEPT !.pc = "done", !.result = Failed("Not authenticated")]
                     ELSE [call EXCEPT !.pc = "connect"]]
    /\ UNCHANGED <<orders, req, now, reviews, products, rv, jar, mw, gen, catalog, users, session>>

\* await connectDB() resolves; registerUser and loginUser then parse the form
ConnectDB(c) ==
    /\ act[c].pc = "connect"
    /\ act' = [act EXCEPT ![c] =
                 CASE act[c].op = "registerUser" ->
                        IF RegisterParse(act[c].form)
                        THEN [act[c] EXCEPT !.pc = "findOne"] ELSE Ended(c, FieldErrors)
                   [] act[c].op = "loginUser" ->
                        IF LoginParse(act[c].form)
                        THEN [act[c] EXCEPT !.pc = "findOne"] ELSE Ended(c, FieldErrors)
                   [] act[c].op = "getUserProfile" -> [act[c] EXCEPT !.pc = "findById"]
                   [] act[c].op = "updateUserProfile" -> [act[c] EXCEPT !.pc = "update"]]
    /\ UNCHANGED <<orders, req, now, reviews, products, rv, jar, mw, gen, catalog, users, session>>

\* await User.findOne({ email }) resolves
FindOne(c) ==
    /\ act[c].pc = "findOne"
    /\ LET id == FindOneByEmail(act[c].form.email)
       IN  act' = [act EXCEPT ![c] =
                     IF act[c].op = "registerUser"
                     THEN IF id # 0
                          THEN Ended(c, Failed("An account with this email already exists"))
                          ELSE [act[c] EXCEPT !.pc = "create"]
                     ELSE IF id = 0
                          THEN Ended(c, Failed("Invalid email or password"))
                          ELSE [act[c] EXCEPT !.pc = "compare", !.user = id]]
    /\ UNCHANGED <<orders, req, now, reviews, products, rv, jar, mw, gen, catalog, users, session>>

\* await User.create(validated.data) resolves, or rejects on the unique index
UserCreate(c) ==
    /\ act[c].pc = "create"
    /\ IF EmailTaken(act[c].form.email)
       THEN /\ act' = [act EXCEPT ![c] = [Ended(c, Catch(act[c].op))
                                           EXCEPT !.caught = "E11000 duplicate key"]]
            /\ UNCHANGED users
       ELSE /\ users' = Append(users, NewUser(act[c].form))
            /\ act' = [act EXCEPT ![c].pc = "cookie", ![c].user = Len(users) + 1]
    /\ UNCHANGED <<orders, req, now, reviews, products, rv, jar, mw, gen, catalog, session>>

\* await user.comparePassword(validated.data.password) resolves
PasswordCompared(c) ==
    /\ act[c].pc = "compare"
    /\ act' = [act EXCEPT ![c] =
                 IF ComparePassword(users[act[c].user], act[c].form.password)
                 THEN [act[c] EXCEPT !.pc = "cookie"]
                 ELSE Ended(c, Failed("Invalid email or password"))]
    /\ UNCHANGED <<orders, req, now, reviews, products, rv, jar, mw, gen, catalog, users, session>>

\* await setAuthCookie({ userId, email, role }) resolves and the action
\* returns success
CookieSet(c) ==
    /\ act[c].pc = "cookie"
    /\ jar' = [jar EXCEPT ![c] =
                 <<CreateToken(AuthPayload(act[c].user, act[c].form), now)>>]
    /\ act' = [act EXCEPT ![c] =
                 Ended(c, Succeeded(IF act[c].op = "registerUser"
                                    THEN "Account created successfully"
                                    ELSE "Login successful"))]
    /\ session' = [session EXCEPT ![c] = "in"]
    /\ UNCHANGED <<orders, req, now, reviews, products, rv, mw, gen, catalog, users>>

\* await User.findById(currentUser.userId) resolves
FoundById(c) ==
    /\ act[c].pc = "findById"
    /\ LET id == FindById(act[c].current[1].userId)
       IN  act' = [act EXCEPT ![c] =
                     IF id = 0 THEN Ended(c, Failed("User not found"))
                     ELSE [Ended(c, Succeeded("")) EXCEPT !.user = id]]
    /\ UNCHANGED <<orders, req, now, reviews, products, rv, jar, mw, gen, catalog, users, session>>

\* await User.findByIdAndUpdate(currentUser.userId, { $set: updates }) resolves
UserUpdated(c) ==
    /\ act[c].pc = "update"
    /\ LET id == FindById(act[c].current[1].userId)
       IN  IF id = 0
           THEN /\ act' = [act EXCEPT ![c] = Ended(c, Failed("User not found"))]
                /\ UNCHANGED users
           ELSE /\ users' = IF Len(act[c].form.firstName) > 0
                            THEN [users EXCEPT ![id].firstName = act[c].form.firstName]
                            ELSE users
                /\ act' = [act EXCEPT ![c] =
                             [Ended(c, Succeeded("Profile updated successfully"))
                                 EXCEPT !.user = id]]
    /\ UNCHANGED <<orders, req, now, reviews, products, rv, jar, mw, gen, catalog, session>>

\* the calls an action awaits
AwaitedAt == {"connect", "findOne", "create", "compare", "cookie", "findById", "update"}

\* the awaited call rejects (the database is down, a query fails, the cookie
\* store is unavailable) and the catch block of the action runs
Rejected(c) ==
    /\ act[c].pc \in AwaitedAt
    /\ act' = [act EXCEPT ![c] = [Ended(c, Catch(act[c].op))
                                    EXCEPT !.caught = "rejected"]]
    /\ UNCHANGED <<orders, req, now, reviews, products, rv, jar, mw, gen, catalog, users, session>>

\* the caller has the result
ActionReturn(c) ==
    /\ act[c].pc = "done"
    /\ act' = [act EXCEPT ![c] = IdleAct]
    /\ UNCHANGED <<orders, req, now, reviews, products, rv, jar, mw, gen, catalog, users, session>>

\* the payloads of the accounts that sign in
Accounts ==
    {[userId |-> 1, email |-> "customer@shop", role |-> "customer"],
     [userId |-> 2, email |-> "admin@shop", role |-> "admin"]}

\* tokens that were not issued by createToken: an admin payload signed with
\* another key, and one that is not a JWT at all
ForeignTokens ==
    {[payload |-> a, iat |-> 1, exp |-> MaxTime + TOKEN_DAYS, key |-> k, wellFormed |-> w] :
        a \in {b \in Accounts : b.role = "admin"},
        k \in {"other"}, w \in BOOLEAN}

RequestPaths ==
    {PathRoot, PathLogin, PathAdmin, PathAdmin \o PathOrders,
     PathAdmin \o <<"x">>, PathAccount, PathOrders \o <<"/", "1">>,
     PathCheckout}

\* the cookies a request may carry: the browser's, none, or a foreign token
RequestCookies == {jar[1], <<>>} \cup {<<t>> : t \in ForeignTokens}

\* a browser signing in and out and sending requests while time passes
NextAuth ==
    \/ \E a \in Accounts : SetAuthCookie(1, a)
    \/ RemoveAuthCookie(1)
    \/ \E p \in RequestPaths, k \in RequestCookies : Middleware(p, k)
    \/ Tick(MaxTime)

SpecAuth == Init /\ [][NextAuth]_vars

(***************************************************************************)
(* What the callers of save() pass in                                      *)
(***************************************************************************)
Roles == {"customer", "admin"}

ItemInputs == [price : {1}, quantity : 1..2, subtotal : 1..2]

ItemLists == UNION {[1..n -> ItemInputs] : n \in 0..MaxItems}

Money == 0..MaxMoney

\* what a caller may pass for a required amount: nothing, a negative
\* amount, or an amount
SuppliedMoney == {Undefined, 0 - 1} \cup Money

Discounts == 0..(MaxMoney + 2)

SuppliedNumbers == {<<>>, <<"x", "1">>}

OrderInputs ==
    [orderNumber : SuppliedNumbers, items : ItemLists,
     subtotal : SuppliedMoney, shippingCost : Money, tax : Money,
     discount : Discounts, total : SuppliedMoney]

\* a loaded order with one of its priced fields reassigned
MoneyEdits(d) ==
    {[d EXCEPT !.items = l] : l \in ItemLists}
        \cup {[d EXCEPT !.shippingCost = m] : m \in Money}
        \cup {[d EXCEPT !.tax = m] : m \in Money}
        \cup {[d EXCEPT !.discount = m] : m \in Discounts}
        \cup {[d EXCEPT !.subtotal = m] : m \in SuppliedMoney}
        \cup {[d EXCEPT !.total = m] : m \in SuppliedMoney}

\* one client creating an order and saving it again
NextTotals ==
    \/ /\ req[1].pc = "idle" /\ Len(orders) = 0
       /\ \E d \in OrderInputs, v \in BOOLEAN :
             SaveBegin(1, 0, NewOrder(d), v, "customer")
    \/ /\ req[1].pc = "idle"
       /\ \E id \in 1..Len(orders) : \E d \in MoneyEdits(orders[id]) :
             SaveBegin(1, id, d, TRUE, "customer")
    \/ CountDocuments(1)
    \/ Write(1)
    \/ Return(1)

SpecTotals == Init /\ [][NextTotals]_vars

\* the cart every client of the concurrent scenario orders
OneItemCart ==
    [orderNumber |-> <<>>,
     items |-> <<[price |-> 1, quantity |-> 1, subtotal |-> 1]>>,
     subtotal |-> 1, shippingCost |-> 0, tax |-> 0, discount |-> 0, total |-> 1]

\* clients creating orders concurrently
NextCreate ==
    \/ \E c \in Clients :
          /\ req[c].pc = "idle"
          /\ \E n \in SuppliedNumbers, v \in BOOLEAN :
                SaveBegin(c, 0, NewOrder([OneItemCart EXCEPT !.orderNumber = n]),
                          v, "customer")
    \/ \E c \in Clients : CountDocuments(c)
    \/ \E c \in Clients : Write(c)
    \/ \E c \in Clients : Return(c)

SpecCreate == Init /\ [][NextCreate]_vars

\* 10 ^ PadLength: the first sequence number that has more digits than the pad
PadLimit == 100000

\* what countDocuments() may resolve to: small collections, and collections
\* around the size at which the sequence outgrows the pad
ExistingCounts == (0..MaxCount) \cup {PadLimit - 2, PadLimit - 1, PadLimit}

\* a document without orderNumber reaches the hook, over a collection of any size
InitNumber ==
    /\ orders = <<>>
    /\ req = [c \in Clients |-> IdleReq]
    /\ now = 1
    /\ reviews = [i \in 1..MaxReviews |-> NoReview]
    /\ products = [p \in Products |-> [averageRating |-> 0, reviewCount |-> 0]]
    /\ rv = [inserted |-> 0, call |-> [c \in Clients |-> IdleRv]]
    /\ jar = [c \in Clients |-> <<>>]
    /\ mw = NoCall
    /\ gen \in {[NotNumbered EXCEPT !.count = n] : n \in ExistingCounts}
    /\ catalog = [p \in Products |-> NoProduct]
    /\ users = <<>>
    /\ act = [c \in Clients |-> IdleAct]
    /\ session = [c \in Clients |-> "none"]

\* the hook runs: countDocuments() resolves and the number is assigned
NumberOrder ==
    /\ ~gen.hooked
    /\ gen' = [OrderNumberHook(gen, gen.count) EXCEPT !.hooked = TRUE]
    /\ UNCHANGED <<orders, req, now, reviews, products, rv, jar, mw, catalog, users, act, session>>

NextNumber == NumberOrder

SpecNumber == InitNumber /\ [][NextNumber]_vars

\* image lists of every length up to the bound, every image marked or not
ImageLists == UNION {[1..n -> [isPrimary : BOOLEAN]] : n \in 0..MaxImages}

\* the product of slot p as a caller fills it in
ProductInputs(p) ==
    [name : {<<"a", " ", Digit(p)>>}, slug : {<<>>, <<"A", "-", Digit(p)>>},
     sku : {<<"x", Digit(p)>>}, price : {1}, images : ImageLists]

\* products saved and saved again with any list of images
NextProduct ==
    \E p \in Products : \E d \in ProductInputs(p), v \in BOOLEAN : ProductSave(p, d, v)

SpecProduct == Init /\ [][NextProduct]_vars

\* the product of slot p as first listed, and relisted with another name,
\* sku and price
CatalogInputs(p) ==
    {[name |-> <<n, Digit(p)>>, slug |-> <<"s", Digit(p)>>, sku |-> <<k, Digit(p)>>,
      price |-> m, images |-> <<[isPrimary |-> TRUE]>>] :
        <<n, k, m>> \in {<<"a", "x", 1>>, <<"b", "d", 2>>}}

\* the line item a checkout writes for product p: the name, sku and price
\* copied from the catalog
LineItem(p, quantity) ==
    [product |-> p, name |-> catalog[p].name, sku |-> catalog[p].sku,
     price |-> catalog[p].price, quantity |-> quantity,
     subtotal |-> catalog[p].price * quantity]

\* the order a checkout creates for one unit of product p
CheckoutCart(p, number) ==
    [orderNumber |-> number, items |-> <<LineItem(p, 1)>>,
     subtotal |-> catalog[p].price, shippingCost |-> 0, tax |-> 0, discount |-> 0,
     total |-> catalog[p].price]

\* a loaded order saved as it is, or with its status reassigned
Resaves(d) == {d, [d EXCEPT !.status = "cancelled"]}

\* orders created from the catalog and saved again while products are
\* relisted and removed
NextCatalog ==
    \/ \E p \in Products : \E d \in CatalogInputs(p) : ProductSave(p, d, TRUE)
    \/ \E p \in Products : ProductRemove(p)
    \/ /\ req[1].pc = "idle"
       /\ \E p \in Products, n \in SuppliedNumbers, v \in BOOLEAN :
             /\ catalog[p].exists
             /\ SaveBegin(1, 0, NewOrder(CheckoutCart(p, n)), v, "customer")
    \/ /\ req[1].pc = "idle"
       /\ \E id \in 1..Len(orders) : \E d \in Resaves(orders[id]) :
             SaveBegin(1, id, d, TRUE, "admin")
    \/ CountDocuments(1)
    \/ Write(1)
    \/ Return(1)

SpecCatalog == Init /\ [][NextCatalog]_vars

Secret1 == <<"s", "e", "c", "r", "e", "t", "0", "1">>
Secret2 == <<"s", "e", "c", "r", "e", "t", "0", "2">>

\* the administrator the database holds from the start
AdminUser ==
    [email |-> <<"b", "@", "x">>, password |-> Hash(Secret2), role |-> "admin",
     firstName |-> <<"B">>]

\* the payload of an account that has since been deleted
DeletedAccount ==
    [userId |-> MaxUsers + 1, email |-> <<"d", "@", "x">>, role |-> "customer"]

\* emails typed into the forms: a new address in either case, the
\* administrator's in either case, and a string that is no address
FormEmails ==
    {<<"a", "@", "x">>, <<"A", "@", "x">>, <<"b", "@", "x">>, <<"B", "@", "x">>, <<"a">>}

\* registration forms; role is a field that registerSchema does not know
RegisterForms ==
    [email : FormEmails, password : {Secret1, <<"s">>}, firstName : {<<"A">>},
     role : {"admin"}]

LoginForms ==
    [email : FormEmails, password : {Secret1, Secret2, <<>>}, firstName : {<<>>},
     role : {""}]

ProfileForms ==
    [email : {<<>>}, password : {<<>>}, firstName : {<<>>, <<"Z">>}, role : {""}]

\* a database that holds the administrator, and a browser without a cookie
\* or with the cookie of a deleted account
InitAccounts ==
    /\ orders = <<>>
    /\ req = [c \in Clients |-> IdleReq]
    /\ now = 1
    /\ reviews = [i \in 1..MaxReviews |-> NoReview]
    /\ products = [p \in Products |-> [averageRating |-> 0, reviewCount |-> 0]]
    /\ rv = [inserted |-> 0, call |-> [c \in Clients |-> IdleRv]]
    /\ jar \in {[c \in Clients |-> k] : k \in {<<>>, <<CreateToken(DeletedAccount, 1)>>}}
    /\ mw = NoCall
    /\ gen = NotNumbered
    /\ catalog = [p \in Products |-> NoProduct]
    /\ users = <<AdminUser>>
    /\ act = [c \in Clients |-> IdleAct]
    /\ session = [c \in Clients |-> "none"]

\* one browser registering, signing in and out, and reading and updating
\* its profile, any awaited call failing
NextAccounts ==
    \/ \E form \in RegisterForms : RegisterUser(1, form)
    \/ \E form \in LoginForms : LoginUser(1, form)
    \/ ProfileAction(1, "getUserProfile", NoForm)
    \/ \E form \in ProfileForms : ProfileAction(1, "updateUserProfile", form)
    \/ ConnectDB(1)
    \/ FindOne(1)
    \/ UserCreate(1)
    \/ PasswordCompared(1)
    \/ CookieSet(1)
    \/ FoundById(1)
    \/ UserUpdated(1)
    \/ Rejected(1)
    \/ ActionReturn(1)
    \/ act[1].pc = "idle" /\ RemoveAuthCookie(1)

SpecAccounts == InitAccounts /\ [][NextAccounts]_vars

\* registration forms for one address, typed in either case
SameEmailForms ==
    [email : {<<"a", "@", "x">>, <<"A", "@", "x">>}, password : {Secret1},
     firstName : {<<"A">>}, role : {""}]

\* clients registering the same address concurrently, the awaited calls of
\* one call interleaved with those of the others, any of them failing
NextRegister ==
    \/ \E c \in Clients :
          /\ act[c].pc = "idle"
          /\ \E form \in SameEmailForms : RegisterUser(c, form)
    \/ \E c \in Clients : ConnectDB(c)
    \/ \E c \in Clients : FindOne(c)
    \/ \E c \in Clients : UserCreate(c)
    \/ \E c \in Clients : CookieSet(c)
    \/ \E c \in Clients : Rejected(c)
    \/ \E c \in Clients : ActionReturn(c)

SpecRegister == Init /\ [][NextRegister]_vars

\* one browser registering, signing in with the right and with a wrong
\* password, signing out and asking for pages with the cookie it holds,
\* while the days pass
NextSession ==
    \/ RegisterUser(1, [email |-> <<"a", "@", "x">>, password |-> Secret1,
                        firstName |-> <<"A">>, role |-> ""])
    \/ \E password \in {Secret2, Secret1} :
          LoginUser(1, [email |-> <<"b", "@", "x">>, password |-> password,
                        firstName |-> <<>>, role |-> ""])
    \/ ConnectDB(1)
    \/ FindOne(1)
    \/ UserCreate(1)
    \/ PasswordCompared(1)
    \/ CookieSet(1)
    \/ Rejected(1)
    \/ ActionReturn(1)
    \/ act[1].pc = "idle" /\ RemoveAuthCookie(1)
    \/ \E pathname \in {PathAccount, PathOrders \o <<"/", "1">>, PathCheckout,
                         PathLogin, PathAdmin} :
          Middleware(pathname, jar[1])
    \/ Tick(MaxTime)

SpecSession == InitAccounts /\ [][NextSession]_vars

\* the cart of the order whose status is followed
NumberedCart == [OneItemCart EXCEPT !.orderNumber = <<"x", "1">>]

\* a status outside the enum of the schema
StatusInputs == Statuses \cup {"refunded"}

TimestampFields == {"paidAt", "shippedAt", "deliveredAt", "cancelledAt"}

\* a loaded order with its status reassigned and at most one of its
\* timestamps set to the current time
StatusEdits(d) ==
    {[d EXCEPT !.status = s] : s \in StatusInputs}
        \cup {[d EXCEPT !.status = s, ![f] = now] :
                 s \in StatusInputs, f \in TimestampFields}

\* one order whose status callers of either role reassign
NextStatus ==
    \/ /\ req[1].pc = "idle" /\ Len(orders) = 0
       /\ \E a \in Roles : SaveBegin(1, 0, NewOrder(NumberedCart), TRUE, a)
    \/ /\ req[1].pc = "idle"
       /\ \E id \in 1..Len(orders), a \in Roles :
             \E d \in StatusEdits(orders[id]) : SaveBegin(1, id, d, TRUE, a)
    \/ Write(1)
    \/ Return(1)
    \/ Tick(MaxStamp)

SpecStatus == Init /\ [][NextStatus]_vars

\* ratings a caller may pass: the ends of the validated range, one inside
\* it, one below and one above it
RatingInputs == {MinRating - 1, MinRating, MinRating + 1, MaxRating, MaxRating + 1}

ValidRatings == {r \in RatingInputs : r >= MinRating /\ r <= MaxRating}

ReviewOrders == 1..2

\* the ratings passed on the write paths: the ends of the validated range
\* and one below it
WrittenRatings == {MinRating - 1, MinRating, MaxRating}

\* reviews by one user, from either of two orders
ReviewInputs ==
    [exists : {TRUE}, product : Products, user : {1}, order : ReviewOrders,
     rating : WrittenRatings, status : ReviewStatuses]

\* one client writing reviews on each write path, every write followed by
\* its post hook
NextReviews ==
    \/ /\ rv.call[1].pc = "idle"
       /\ \E doc \in ReviewInputs : ReviewCreate(1, doc)
    \/ /\ rv.call[1].pc = "idle"
       /\ \E id \in ReviewIds, r \in WrittenRatings, s \in ReviewStatuses :
             ReviewSave(1, id, r, s)
    \/ /\ rv.call[1].pc = "idle"
       /\ \E id \in ReviewIds, r \in WrittenRatings \cap ValidRatings,
                s \in ReviewStatuses :
             FindOneAndUpdate(1, id, r, s)
    \/ /\ rv.call[1].pc = "idle"
       /\ \E id \in ReviewIds : FindOneAndDelete(1, id)
    \/ Aggregate(1)
    \/ UpdateProduct(1)
    \/ ReviewReturn(1)

SpecReviews == Init /\ [][NextReviews]_vars

ReviewUsers == 1..2

\* valid reviews that differ in the user, the product or the order
KeyedReviewInputs ==
    [exists : {TRUE}, product : Products, user : ReviewUsers, order : ReviewOrders,
     rating : {MaxRating}, status : {"pending"}]

\* one client creating reviews, some of them for a triple already reviewed
NextUnique ==
    \/ /\ rv.call[1].pc = "idle"
       /\ \E doc \in KeyedReviewInputs : ReviewCreate(1, doc)
    \/ ReviewReturn(1)

SpecUnique == Init /\ [][NextUnique]_vars

\* approved reviews of one product
RacingReviewInputs ==
    [exists : {TRUE}, product : {1}, user : {1}, order : ReviewOrders,
     rating : {MinRating, MaxRating}, status : {"approved"}]

\* clients writing approved reviews of one product concurrently, the
\* recomputation of each write interleaved with the other writes
NextRace ==
    \/ \E c \in Clients :
          /\ rv.call[c].pc = "idle"
          /\ \E doc \in RacingReviewInputs : ReviewCreate(c, doc)
    \/ \E c \in Clients : Aggregate(c)
    \/ \E c \in Clients : UpdateProduct(c)
    \/ \E c \in Clients : ReviewReturn(c)

SpecRace == Init /\ [][NextRace]_vars

\* the reviews a collection may hold, each from an order of its own
StoredReviews(i) ==
    {NoReview} \cup [exists : {TRUE}, product : Products, user : {1}, order : {i},
                     rating : ValidRatings, status : ReviewStatuses]

\* any collection of reviews, the cached ratings not yet computed
InitRating ==
    /\ orders = <<>>
    /\ req = [c \in Clients |-> IdleReq]
    /\ now = 1
    /\ reviews \in {f \in [1..MaxRated -> UNION {StoredReviews(i) : i \in 1..MaxRated}] :
                      \A i \in 1..MaxRated : f[i] \in StoredReviews(i)}
    /\ products = [p \in Products |-> [averageRating |-> 0, reviewCount |-> 0]]
    /\ rv = [inserted |-> MaxRated, call |-> [c \in Clients |-> IdleRv]]
    /\ jar = [c \in Clients |-> <<>>]
    /\ mw = NoCall
    /\ gen = NotNumbered
    /\ catalog = [p \in Products |-> NoProduct]
    /\ users = <<>>
    /\ act = [c \in Clients |-> IdleAct]
    /\ session = [c \in Clients |-> "none"]

\* updateProductRating(productId) is called
UpdateProductRating(c, productId) ==
    /\ rv.call[c].pc = "idle"
    /\ rv' = [rv EXCEPT !.call[c] = [IdleRv EXCEPT !.pc = "aggregate",
                                                   !.op = "updateProductRating",
                                                   !.product = productId]]
    /\ UNCHANGED <<orders, req, now, reviews, products, jar, mw, gen, catalog, users, act, session>>

\* the recomputation run on its own over any collection of reviews
NextRating ==
    \/ \E p \in Products : UpdateProductRating(1, p)
    \/ Aggregate(1)
    \/ UpdateProduct(1)
    \/ ReviewReturn(1)

SpecRating == InitRating /\ [][NextRating]_vars

(***************************************************************************)
(* Properties of the Order model                                           *)
(***************************************************************************)
\* C1: every persisted order has subtotal equal to the sum of its items'
\* subtotals and total equal to subtotal + shippingCost + tax - discount,
\* whatever subtotal and total the caller supplied.
C1_TotalsRecomputed ==
    \A i \in 1..Len(orders) :
        /\ orders[i].subtotal = SumSubtotals(orders[i].items)
        /\ orders[i].total = orders[i].subtotal + orders[i].shippingCost
                                + orders[i].tax - orders[i].discount

\* a save has succeeded although the caller supplied a total and a subtotal
\* that differ from the persisted ones, on an order of two items
C1_Witness ==
    /\ req[1].pc = "done" /\ req[1].result = "ok"
    /\ req[1].input.total # orders[req[1].wrote].total
    /\ req[1].input.subtotal # orders[req[1].wrote].subtotal
    /\ Len(orders[req[1].wrote].items) = 2
    /\ orders[req[1].wrote].shippingCost + orders[req[1].wrote].tax > 0

\* C2: two concurrent creations never end up with the same order number:
\* no two persisted orders share an orderNumber, and no creation is
\* assigned a number that was assigned to another one.
C2_DistinctOrderNumbers ==
    /\ \A i, j \in 1..Len(orders) :
          i # j => orders[i].orderNumber # orders[j].orderNumber
    /\ \A c, d \in Clients :
          (c # d /\ req[c].counted /\ req[d].counted)
              => req[c].doc.orderNumber # req[d].doc.orderNumber

\* the state diagram: pending -> processing -> shipped -> delivered, and
\* cancelled from any state that is not terminal
LegalTransitions ==
    {<<"pending", "processing">>, <<"processing", "shipped">>,
     <<"shipped", "delivered">>, <<"pending", "cancelled">>,
     <<"processing", "cancelled">>, <<"shipped", "cancelled">>}

\* the timestamp that a transition into the status stamps
StampOf(status) ==
    CASE status = "processing" -> "paidAt" [] status = "shipped" -> "shippedAt"
      [] status = "delivered" -> "deliveredAt" [] status = "cancelled" -> "cancelledAt"

\* C3: the status of a persisted order only changes along the state
\* diagram; delivered and cancelled are never left.
C3_OnlyLegalTransitions ==
    [][\A i \in 1..Len(orders) :
          orders'[i].status # orders[i].status
              => <<orders[i].status, orders'[i].status>> \in LegalTransitions]_vars

\* C4: a save requested by an actor who is not an admin changes the status
\* of an order only to cancelled, and only from pending or processing.
C4_NonAdminOnlyCancels ==
    [][\A c \in Clients :
          (/\ req[c].pc = "write" /\ req'[c].pc = "done"
           /\ req[c].id > 0 /\ req[c].actor # "admin"
           /\ orders'[req[c].id].status # orders[req[c].id].status)
          => (/\ orders'[req[c].id].status = "cancelled"
              /\ orders[req[c].id].status \in {"pending", "processing"})]_vars

\* C5: a change of status into processing, shipped, delivered or cancelled
\* sets the matching timestamp, and a timestamp that is set is never
\* overwritten (a save that leaves the status alone leaves all of them alone).
C5_TimestampStampedOnce ==
    [][\A i \in 1..Len(orders) :
          /\ (orders'[i].status # orders[i].status /\ orders'[i].status # "pending")
                => orders'[i][StampOf(orders'[i].status)] # 0
          /\ \A f \in TimestampFields :
                orders[i][f] # 0 => orders'[i][f] = orders[i][f]
          /\ orders'[i].status = orders[i].status
                => \A f \in TimestampFields : orders'[i][f] = orders[i][f]]_vars

\* C10: a creation with an empty item list fails with a validation error
\* and persists nothing.
C10_EmptyItemsRejected ==
    \A c \in Clients :
        (req[c].pc = "done" /\ req[c].id = 0 /\ req[c].validate
            /\ Len(req[c].input.items) = 0)
        => (req[c].result = "ValidationError" /\ req[c].wrote = 0)

\* a creation whose only defect is the empty item list has been refused
C10_Witness ==
    \E c \in Clients :
        /\ req[c].pc = "done" /\ req[c].id = 0 /\ req[c].validate
        /\ Len(req[c].input.items) = 0
        /\ ValidateOrder([req[c].input EXCEPT !.items = OneItemCart.items])
        /\ req[c].result = "ValidationError"
        /\ Len(orders) = 0

\* C11: a save whose inputs make subtotal + shippingCost + tax - discount
\* negative fails with a validation error, and no persisted order has a
\* negative total.
C11_NoNegativeTotal ==
    /\ \A i \in 1..Len(orders) : orders[i].total >= 0
    /\ \A c \in Clients :
          (/\ req[c].pc = "done"
           /\ SumSubtotals(req[c].input.items) + req[c].input.shippingCost
                 + req[c].input.tax - req[c].input.discount < 0)
          => req[c].result = "ValidationError"

RECURSIVE ParseInt(_)
\* the number that a string of decimal digits denotes (-1: not all digits)
ParseInt(s) ==
    IF Len(s) = 0 THEN 0
    ELSE LET last == s[Len(s)]
             rest == ParseInt(SubSeq(s, 1, Len(s) - 1))
         IN  IF rest >= 0 /\ \E d \in 0..9 : Digit(d) = last
             THEN 10 * rest + (CHOOSE d \in 0..9 : Digit(d) = last)
             ELSE 0 - 1

\* C12: an order saved without an order number is numbered ORD-<4-digit
\* year>-<sequence>, the sequence being the number of existing orders plus
\* one written as exactly 5 digits, whatever the number of existing orders.
C12_NumberIsFiveDigitSequence ==
    gen.hooked =>
        /\ Len(gen.orderNumber) = 4 + 4 + 1 + 5
        /\ SubSeq(gen.orderNumber, 1, 4) = <<"O", "R", "D", "-">>
        /\ ParseInt(SubSeq(gen.orderNumber, 5, 8)) = CurrentYear
        /\ gen.orderNumber[9] = "-"
        /\ ParseInt(SubSeq(gen.orderNumber, 10, 14)) = gen.count + 1

\* C15: every line item of every persisted order has its subtotal equal to
\* its price times its quantity.
C15_ItemSubtotalIsPriceTimesQuantity ==
    \A i \in 1..Len(orders) : \A k \in 1..Len(orders[i].items) :
        orders[i].items[k].subtotal
            = orders[i].items[k].price * orders[i].items[k].quantity

\* C22: the order number of a persisted order never changes: a later save of
\* the order does not await the numbering hook and writes the orderNumber
\* the order had, however many orders were created since.
C22_NumberAssignedOnce ==
    [][/\ \A i \in 1..Len(orders) : orders'[i].orderNumber = orders[i].orderNumber
       /\ \A c \in Clients :
             (req[c].pc = "idle" /\ req'[c].pc # "idle" /\ req'[c].id > 0)
             => (req'[c].pc # "count" /\ ~req'[c].counted)]_vars

\* the first order, numbered by the hook, has been saved again with another
\* status after a second order was created, and still has its number
C22_Witness ==
    /\ Len(orders) = 2
    /\ req[1].pc = "done" /\ req[1].id = 1 /\ req[1].result = "ok"
    /\ req[1].doc.status # req[1].base.status
    /\ orders[1].status = req[1].doc.status
    /\ orders[1].orderNumber = FormatOrderNumber(CurrentYear, 0)
    /\ orders[1].orderNumber # FormatOrderNumber(CurrentYear, Len(orders))

(***************************************************************************)
(* Properties of the rating aggregation                                    *)
(***************************************************************************)
\* the approved reviews of a product
ApprovedReviewsOf(p) ==
    {i \in DOMAIN reviews :
        reviews[i].exists /\ reviews[i].product = p /\ reviews[i].status = "approved"}

\* tenths is the mean sum / count rounded to one decimal place
IsRoundedMean(tenths, sum, count) ==
    /\ 2 * (10 * sum - count * tenths) <= count
    /\ 2 * (count * tenths - 10 * sum) <= count

\* C6: a completed recomputation leaves the product with the number of its
\* approved reviews as reviewCount and their mean rating, rounded to one
\* decimal place, as averageRating; with no approved review both are 0.
C6_RatingIsRoundedMean ==
    \A c \in Clients :
        (rv.call[c].pc = "done" /\ rv.call[c].recomputed)
        => LET p == rv.call[c].product
               approved == ApprovedReviewsOf(p)
           IN  IF approved = {}
               THEN products[p] = [averageRating |-> 0, reviewCount |-> 0]
               ELSE /\ products[p].reviewCount = Cardinality(approved)
                    /\ IsRoundedMean(products[p].averageRating,
                                     SumRatings(approved), Cardinality(approved))

\* a recomputation over three approved reviews whose mean is not a whole
\* number of tenths and is rounded up has completed
C6_Witness ==
    \E c \in Clients :
        /\ rv.call[c].pc = "done" /\ rv.call[c].recomputed
        /\ LET p == rv.call[c].product
               approved == ApprovedReviewsOf(p)
           IN  /\ Cardinality(approved) = 3
               /\ (10 * SumRatings(approved)) % 3 = 2
               /\ products[p].averageRating * 3 > 10 * SumRatings(approved)

\* C7: every successful write of a review that was approved before the
\* write or is approved after it has been followed, once the write has
\* settled, by a recomputation of the rating of its product.
C7_ApprovedWriteRecomputes ==
    \A c \in Clients :
        (/\ rv.call[c].pc = "done" /\ rv.call[c].result = "ok"
         /\ "approved" \in {rv.call[c].before, rv.call[c].after})
        => rv.call[c].recomputed

\* the stored reviews with the user, product and order of doc
SameTriple(doc) ==
    {j \in ReviewIds : /\ reviews[j].exists
                       /\ reviews[j].user = doc.user
                       /\ reviews[j].product = doc.product
                       /\ reviews[j].order = doc.order}

\* C13: a create of a valid review for a (user, product, order) that already
\* has a stored review fails on the unique index and leaves the stored
\* reviews unchanged; a create for a triple that differs in any of the three
\* references from every stored review is accepted and stored.
C13_OneReviewPerTriple ==
    [][\A c \in Clients :
          (/\ rv.call[c].pc = "idle" /\ rv'.call[c].pc # "idle"
           /\ rv'.call[c].op = "create"
           /\ ValidateReview(rv'.call[c].input))
          => LET doc == rv'.call[c].input
             IN  IF SameTriple(doc) # {}
                 THEN /\ rv'.call[c].result = "DuplicateKey"
                      /\ reviews' = reviews
                 ELSE /\ rv'.call[c].result = "ok"
                      /\ \E j \in ReviewIds :
                            /\ ~reviews[j].exists
                            /\ reviews' = [reviews EXCEPT ![j] = doc]]_vars

\* a second create for the triple of a stored review has been refused
C13_Witness ==
    /\ rv.call[1].pc = "done" /\ rv.call[1].op = "create"
    /\ rv.call[1].result = "DuplicateKey"
    /\ Cardinality(SameTriple(rv.call[1].input)) = 1

\* C17: when no recomputation is in flight, the cached averageRating and
\* reviewCount of every product equal the aggregate of its approved reviews,
\* whatever the interleaving of the concurrent writes was.
C17_NoDriftAfterRace ==
    (\A c \in Clients : rv.call[c].pc \in {"idle", "done"})
        => \A p \in Products :
              LET ids == ApprovedReviewsOf(p)
              IN  /\ products[p].reviewCount = Cardinality(ids)
                  /\ IsRoundedMean(products[p].averageRating, SumRatings(ids),
                                   Cardinality(ids))

(***************************************************************************)
(* Properties of the middleware                                            *)
(***************************************************************************)
\* the middleware has answered a request
Answered == mw.response.kind # "none"

\* the cookie of the answered request is a token signed with the server
\* secret that had not expired when the request was answered
CarriesValidToken ==
    /\ Len(mw.cookie) = 1
    /\ mw.cookie[1].wellFormed
    /\ mw.cookie[1].key = JWT_SECRET
    /\ mw.at < mw.cookie[1].exp

UnderPrefix(pathname, prefix) ==
    /\ Len(pathname) >= Len(prefix)
    /\ \A i \in 1..Len(prefix) : pathname[i] = prefix[i]

\* C8: a request under /admin is passed through only with a valid token
\* whose role is admin; with a valid token of role customer it is
\* redirected to '/'.
C8_AdminOnly ==
    (Answered /\ UnderPrefix(mw.pathname, PathAdmin))
    => /\ mw.response.kind = "next"
            => (CarriesValidToken /\ mw.cookie[1].payload.role = "admin")
       /\ (CarriesValidToken /\ mw.cookie[1].payload.role = "customer")
            => (mw.response.kind = "redirect" /\ mw.response.to = PathRoot)

\* a customer with a valid token has asked for a page under /admin and has
\* been sent to '/'
C8_Witness ==
    /\ Answered /\ UnderPrefix(mw.pathname, PathAdmin)
    /\ CarriesValidToken /\ mw.cookie[1].payload.role = "customer"
    /\ mw.response = RedirectHome

IssuedAndFresh(cookie, t) ==
    /\ Len(cookie) = 1
    /\ \E a \in Accounts, s \in 1..t :
          cookie[1] = CreateToken(a, s) /\ t < s + 7

\* C14: verifyToken yields the payload of a token only when createToken
\* signed it with the server secret and its 7 days have not passed; for an
\* expired, foreign-signed or malformed token it yields null, so that
\* getUserFromRequest and getCurrentUser find no user.
C14_OnlyFreshServerTokensVerify ==
    /\ Answered =>
          mw.user = IF IssuedAndFresh(mw.cookie, mw.at)
                    THEN <<mw.cookie[1].payload>> ELSE <<>>
    /\ \A k \in RequestCookies :
          /\ GetCurrentUser(k, now)
                = IF IssuedAndFresh(k, now) THEN <<k[1].payload>> ELSE <<>>
          /\ Len(k) = 1 =>
                VerifyToken(k[1], now)
                    = IF IssuedAndFresh(k, now) THEN <<k[1].payload>> ELSE <<>>

\* a request carrying a token of the server on the last day before its
\* expiry has been answered with the user of the token
C14_Witness ==
    /\ Answered
    /\ IssuedAndFresh(mw.cookie, mw.at)
    /\ mw.at + 1 = mw.cookie[1].exp
    /\ mw.user = <<mw.cookie[1].payload>>

(***************************************************************************)
(* Properties of the Product model                                         *)
(***************************************************************************)
RECURSIVE CountPrimary(_)
\* the number of images marked primary
CountPrimary(images) ==
    IF Len(images) = 0 THEN 0
    ELSE CountPrimary(Tail(images)) + (IF Head(images).isPrimary THEN 1 ELSE 0)

\* C16 as claimed: every saved product has exactly one image marked primary.
C16_ExactlyOnePrimary ==
    \A p \in Products :
        catalog[p].exists => CountPrimary(catalog[p].images) = 1

\* C16: every saved product that has an image has at least one image marked
\* primary: when the caller marked none the first image is promoted and is
\* the only primary one, and when the caller marked one or several the
\* images are saved as marked.
C16_AtLeastOnePrimary ==
    \A p \in Products :
        (catalog[p].exists /\ Len(catalog[p].images) > 0)
        => /\ CountPrimary(catalog[p].images) >= 1
           /\ IF CountPrimary(catalog[p].given) = 0
              THEN /\ catalog[p].images = [catalog[p].given EXCEPT ![1].isPrimary = TRUE]
                   /\ CountPrimary(catalog[p].images) = 1
              ELSE catalog[p].images = catalog[p].given

\* one product was saved with two images of which none was marked and has
\* its first image promoted, another was saved with two images marked
C16_Witness ==
    \E p, q \in Products :
        /\ catalog[p].exists /\ Len(catalog[p].given) = 2
        /\ CountPrimary(catalog[p].given) = 0
        /\ catalog[p].images[1].isPrimary /\ ~catalog[p].images[2].isPrimary
        /\ catalog[q].exists /\ CountPrimary(catalog[q].given) = 2
        /\ CountPrimary(catalog[q].images) = 2

\* C19: once an order is persisted, no relisting or removal of a product
\* and no later save of the order changes the name, sku, price or subtotal
\* of its line items, nor its subtotal or total.
C19_OrderKeepsItsSnapshot ==
    [][\A i \in 1..Len(orders) :
          /\ Len(orders'[i].items) = Len(orders[i].items)
          /\ \A k \in 1..Len(orders[i].items) :
                /\ orders'[i].items[k].name = orders[i].items[k].name
                /\ orders'[i].items[k].sku = orders[i].items[k].sku
                /\ orders'[i].items[k].price = orders[i].items[k].price
                /\ orders'[i].items[k].subtotal = orders[i].items[k].subtotal
          /\ orders'[i].subtotal = orders[i].subtotal
          /\ orders'[i].total = orders[i].total]_vars

\* an order has been saved again, and written, while its product is listed
\* with another name, sku and price than the order holds
C19_Witness ==
    /\ req[1].pc = "done" /\ req[1].id > 0 /\ req[1].result = "ok"
    /\ req[1].doc.status # req[1].base.status
    /\ LET item == orders[req[1].id].items[1]
       IN  /\ catalog[item.product].exists
           /\ catalog[item.product].name # item.name
           /\ catalog[item.product].sku # item.sku
           /\ catalog[item.product].price # item.price
           /\ orders[req[1].id].total = item.price

(***************************************************************************)
(* Properties of the server actions                                        *)
(***************************************************************************)
\* what the action of client c was called to do has been done
Completed(c) ==
    LET a == act[c]
    IN  CASE a.op = "registerUser" ->
               /\ a.user \in 1..Len(users)
               /\ users[a.user].email = ToLowerCase(a.form.email)
               /\ Len(jar[c]) = 1 /\ jar[c][1].payload.userId = a.user
          [] a.op = "loginUser" ->
               /\ a.user \in 1..Len(users)
               /\ Len(jar[c]) = 1 /\ jar[c][1].payload.userId = a.user
          [] a.op = "getUserProfile" ->
               /\ a.user \in 1..Len(users)
               /\ a.user = a.current[1].userId
          [] a.op = "updateUserProfile" ->
               /\ a.user \in 1..Len(users)
               /\ a.user = a.current[1].userId
               /\ Len(a.form.firstName) > 0
                     => users[a.user].firstName = a.form.firstName

\* C18: registerUser, loginUser, getUserProfile and updateUserProfile never
\* raise to the caller: every call ends by returning; a failure returns
\* success false with a message or field errors, and success true is
\* returned only when the operation was completed.
C18_ActionsReturnNeverRaise ==
    \A c \in Clients :
        /\ act[c].result.kind # "thrown"
        /\ act[c].pc = "done" =>
              /\ act[c].result.kind = "returned"
              /\ ~act[c].result.success
                    => (act[c].result.message # "" \/ act[c].result.errors)
              /\ act[c].result.success => Completed(c)

\* a registration whose User.create was rejected has returned the message of
\* the catch block
C18_Witness ==
    /\ act[1].pc = "done" /\ act[1].op = "registerUser"
    /\ RegisterParse(act[1].form) /\ FindOneByEmail(act[1].form.email) = 0
    /\ act[1].result = Failed("Registration failed. Please try again.")

\* C20: the cookie is set only by the step of registerUser or loginUser that
\* follows the creation of the user, or the finding of the user and a
\* matching password, and that step returns success; the token carries the
\* _id, email and role of the stored user; a call that returns success false
\* leaves the cookie store as it was when the call started.
C20_CookieOnlyOnSuccess ==
    [][\A c \in Clients :
          /\ (jar'[c] # jar[c] /\ jar'[c] # <<>>)
                => LET a == act[c]
                   IN  /\ a.pc = "cookie" /\ a.op \in {"registerUser", "loginUser"}
                       /\ act'[c].pc = "done" /\ act'[c].result.success
                       /\ a.user \in 1..Len(users)
                       /\ users[a.user].email = ToLowerCase(a.form.email)
                       /\ ComparePassword(users[a.user], a.form.password)
                       /\ jar'[c] = <<CreateToken([userId |-> a.user,
                                                   email |-> users[a.user].email,
                                                   role |-> users[a.user].role], now)>>
          /\ (act'[c].pc = "done" /\ ~act'[c].result.success)
                => jar'[c] = act'[c].cookie0]_vars

\* the administrator has signed in with the email typed in capitals, over
\* the cookie of another account: the token carries the stored email and role
C20_Witness ==
    /\ act[1].pc = "done" /\ act[1].op = "loginUser" /\ act[1].result.success
    /\ act[1].cookie0 # <<>>
    /\ jar[1][1].payload.email # act[1].form.email
    /\ jar[1][1].payload = [userId |-> 1, email |-> AdminUser.email, role |-> "admin"]

\* no two stored users have the same email; the registrations that have
\* returned success each created a user of their own; a registration that
\* has returned failure has left the cookie store of its browser as it was
RegisteredOnce ==
    /\ \A i, j \in 1..Len(users) : i # j => users[i].email # users[j].email
    /\ \A c, d \in Clients :
          (/\ c # d
           /\ act[c].pc = "done" /\ act[c].op = "registerUser" /\ act[c].result.success
           /\ act[d].pc = "done" /\ act[d].op = "registerUser" /\ act[d].result.success)
          => /\ act[c].user # act[d].user
             /\ ToLowerCase(act[c].form.email) # ToLowerCase(act[d].form.email)
    /\ \A c \in Clients :
          (act[c].pc = "done" /\ act[c].op = "registerUser" /\ ~act[c].result.success)
          => jar[c] = act[c].cookie0

\* C21: however two registrations of one email interleave, at most one user
\* with the email is stored and at most one of the calls returns success; a
\* call that reaches User.create after the other has created the user
\* returns success false, creates nothing and sets no cookie.
C21_OneUserPerEmail ==
    [][/\ RegisteredOnce'
       /\ \A c \in Clients :
             (/\ act[c].pc = "create" /\ act'[c].pc # "create"
              /\ \E i \in 1..Len(users) :
                    users[i].email = ToLowerCase(act[c].form.email))
             => /\ act'[c].pc = "done" /\ ~act'[c].result.success
                /\ users' = users
                /\ jar' = jar]_vars

\* two calls for one email both passed the existing-user check; one has
\* created the user and returned success, the other was refused by the
\* unique index and has returned failure without a cookie
C21_Witness ==
    \E c, d \in Clients :
        /\ c # d
        /\ act[c].pc = "done" /\ act[c].op = "registerUser" /\ act[c].result.success
        /\ act[d].pc = "done" /\ act[d].op = "registerUser"
        /\ act[d].result = Failed("Registration failed. Please try again.")
        /\ act[d].caught = "E11000 duplicate key"
        /\ ToLowerCase(act[c].form.email) = ToLowerCase(act[d].form.email)
        /\ act[c].form.email # act[d].form.email
        /\ Len(users) = 1 /\ jar[d] = <<>> /\ Len(jar[c]) = 1

(***************************************************************************)
(* Properties of the session of one browser                                *)
(***************************************************************************)
\* the step is the middleware answering a request that carries the cookie
\* the browser holds
BrowserRequest == mw' # mw /\ mw'.cookie = jar[1]

ShopPage(pathname) ==
    \/ UnderPrefix(pathname, PathAccount)
    \/ UnderPrefix(pathname, PathOrders)
    \/ UnderPrefix(pathname, PathCheckout)

ProtectedPage(pathname) == ShopPage(pathname) \/ UnderPrefix(pathname, PathAdmin)

\* what a signed-in browser is answered
SignedInAnswer ==
    /\ ShopPage(mw'.pathname) => mw'.response = PassThrough
    /\ UnderPrefix(mw'.pathname, PathAuth) => mw'.response = RedirectHome

\* what a browser without a session is answered
SignedOutAnswer ==
    ProtectedPage(mw'.pathname) => mw'.response = RedirectToLogin(mw'.pathname)

\* C23 as stated: after a successful loginUser or registerUser, requests to
\* /account, /orders and /checkout are passed through and requests to /auth
\* are redirected to '/', however long ago the sign-in was; after logoutUser
\* every request to a protected path is redirected to /auth/login.
C23_SessionLifecycle_AnyAge ==
    [][BrowserRequest =>
          /\ session[1] = "in" => SignedInAnswer
          /\ session[1] = "out" => SignedOutAnswer]_vars

\* C23: after a successful loginUser or registerUser, and for the 7 days the
\* token lasts, requests to /account, /orders and /checkout are passed
\* through and requests to /auth are redirected to '/'; once the token has
\* expired, and after logoutUser until the next successful sign-in, every
\* request to a protected path is redirected to /auth/login.
C23_SessionLifecycle ==
    [][BrowserRequest =>
          /\ (session[1] = "in" /\ now < jar[1][1].exp) => SignedInAnswer
          /\ (session[1] = "in" /\ now >= jar[1][1].exp) => SignedOutAnswer
          /\ session[1] = "out" => SignedOutAnswer]_vars

\* loginUser has succeeded for a browser that held no cookie, and on the last
\* day of the token the browser is passed through to /checkout
C23_Witness ==
    /\ session[1] = "in"
    /\ act[1].pc = "done" /\ act[1].op = "loginUser" /\ act[1].result.success
    /\ act[1].cookie0 = <<>>
    /\ mw.cookie = jar[1]
    /\ mw.at + 1 = jar[1][1].exp
    /\ mw.pathname = PathCheckout
    /\ mw.response = PassThrough

====
